---------------------------- MODULE Spec2Model ----------------------------
(***************************************************************************)
(* A model of folly/Range.h: the Range<Iter> view (a pair of positions     *)
(* b_, e_ over a buffer the view does not own), its string work-alike      *)
(* find functions, compare, and the substring search qfind.                *)
(*                                                                         *)
(* Three machines share the module:                                        *)
(*   Spec         one Range object under construction and mutation         *)
(*   SpecFind     one call of Range::find / qfind, statement by statement  *)
(*   SpecCompare  Range::compare and the operators derived from it         *)
(*                                                                         *)
(* size_type is modelled with its wrap-around, scaled from 2^64 down to    *)
(* SizeMod values; int is scaled from 2^32 down to IntMod values.          *)
(* Positions (pointers to char) are addresses of a flat address space of   *)
(* SizeMod addresses.  Elements are chars, given by their ASCII codes.     *)
(***************************************************************************)
EXTENDS Integers, Sequences, FiniteSets, TLC

\* ------------------------------------------------------------- bounds
SizeMod == 8        \* number of values of size_type (2^64 in the build)
IntMod == 4         \* number of values of int (2^32 in the build)
MaxHay == 5         \* longest haystack buffer searched
MaxNeedle == 3      \* longest needle searched for
MaxStrLen == 3      \* longest owning string a view is constructed from
MaxCmpLen == 4      \* longest view compared

\* ------------------------------------------------- types and constants
npos == SizeMod - 1

\* str.data(): the address the owning string's characters start at.
StrData == 1

\* Iter(): the value-initialised (null) position.
NullIter == 0

Chars == {65, 97, 98}           \* 'A', 'a', 'b'

Addr == 0 .. (SizeMod - 1)
SizeT == 0 .. (SizeMod - 1)

SeqsUpTo(S, n) == UNION {[1 .. k -> S] : k \in 0 .. n}

Min(x, y) == IF x <= y THEN x ELSE y

\* A view is the pair of positions the class keeps.
Range(b, e) == [b |-> b, e |-> e]

\* size(): e_ - b_ converted to size_type.
Size(v) == (v.e - v.b) % SizeMod

\* AsciiCaseSensitive / AsciiCaseInsensitive
ToUpper(c) == IF c >= 97 /\ c <= 122 THEN c - 32 ELSE c

Eq(eq, l, r) ==
  IF eq = "asciiCaseSensitive" THEN l = r
  ELSE ToUpper(l) = ToUpper(r)

\* ---------------------------------------------------------- variables
VARIABLES
  \* the Range object of Spec
  b_, e_,        \* the view's two positions
  rhs,           \* the view the last call left in its argument, when it
                 \* was swap
  sub,           \* the view the last call returned, when it was subpiece
  fatal,         \* execution stopped on a CHECK or an enabled assert
  ndebug,        \* the build: TRUE when assert() is compiled out
  last,          \* the operation last executed and its arguments
  orig, shrunk,  \* the view before a run of advance/subtract calls, and
                 \* the sum of the amounts of that run
  \* one call of find / qfind, SpecFind
  hay, needle,   \* the two buffers
  comp,          \* the comparator
  api, pos,      \* the entry point called and its start offset
  pc,            \* the statement the call is at
  hs,            \* the haystack view handed to qfind
  i, j, skip,    \* qfind's locals
  qret, ret,     \* what qfind returned, and what the entry point returned
  oob,           \* some element was read outside its view
  reads,         \* number of element reads so far
  mism,          \* number of verification mismatches so far
  \* SpecCompare
  cmpA, cmpB, cmpC,   \* the three views compared (their elements)
  cmpDone,            \* the comparisons have been evaluated
  cmpRes              \* what compare, operator< and operator== returned
                      \* for each ordered pair of the three

viewVars == <<b_, e_, rhs, sub, fatal, ndebug, last, orig, shrunk>>
findVars == <<hay, needle, comp, api, pos, pc, hs, i, j, skip, qret, ret,
              oob, reads, mism>>
cmpVars == <<cmpA, cmpB, cmpC, cmpDone, cmpRes>>
vars == <<viewVars, findVars, cmpVars>>

\* The machines a specification does not run stay in these states.
ViewIdle ==
  /\ b_ = NullIter /\ e_ = NullIter /\ rhs = Range(NullIter, NullIter)
  /\ sub = Range(NullIter, NullIter)
  /\ fatal = FALSE /\ ndebug = TRUE
  /\ last = [op |-> "idle", x |-> 0, y |-> 0, len |-> 0]
  /\ orig = Range(NullIter, NullIter) /\ shrunk = 0

FindIdle ==
  /\ hay = <<>> /\ needle = <<>> /\ comp = "asciiCaseSensitive"
  /\ api = "idle" /\ pos = 0 /\ pc = "idle"
  /\ hs = Range(NullIter, NullIter)
  /\ i = 0 /\ j = 0 /\ skip = 0 /\ qret = 0 /\ ret = 0
  /\ oob = FALSE /\ reads = 0 /\ mism = 0

CmpPairs == {"A", "B", "C"} \X {"A", "B", "C"}

NotCompared == [p \in CmpPairs |-> [c |-> 0, lt |-> FALSE, eq |-> FALSE]]

CmpIdle ==
  /\ cmpA = <<>> /\ cmpB = <<>> /\ cmpC = <<>> /\ cmpDone = FALSE
  /\ cmpRes = NotCompared

\* ------------------------------------------------------------ subpiece
\* subpiece(first, length): CHECK_LE(first, size()), then
\* Range(b_ + first, min(length, size() - first)) through Range(Iter, size_t).
SubpieceOk(v, first) == first <= Size(v)

SubpieceUnclamped(v, first, length) ==
  LET start == (v.b + first) % SizeMod
  IN  Range(start, (start + length) % SizeMod)

Subpiece(v, first, length) ==
  LET start == (v.b + first) % SizeMod
      size == Min(length, (Size(v) - first) % SizeMod)
  IN  Range(start, (start + size) % SizeMod)


\* ------------------------------------------------- the Range object
\* Pointer arithmetic on the flat address space: the sum or difference modulo
\* the number of addresses.  (Past the object pointed into the standard
\* leaves the result undefined; the address computed is the wrapped one.)
PtrAdd(p, n) == (p + n) % SizeMod

PtrSub(p, n) == (p - n) % SizeMod

\* The char at an address: every address holds a char of its own, so two
\* elements are equal exactly when they are the same object.
Mem(a) == 97 + a

\* b_[i]
Elem(v, k) == Mem(PtrAdd(v.b, k))

\* assert(b_ <= e_) in size(), assert(b_ < e_) in pop_front and pop_back,
\* assert(reachable(b_, e_)) in Range(Iter, Iter): an enabled assert that
\* fails stops the program; with NDEBUG it is not evaluated.
AssertStops(cond) == ~ndebug /\ ~cond

\* CHECK_LE(n, size()) of advance and of subtract
ShrinkOkStrict(v, n) == n < Size(v)

ShrinkOk(v, n) == n <= Size(v)

\* CHECK_LE(startFrom + size, str.size()), the sum taken in size_type
FromSizeOk(startFrom, size, len) == (startFrom + size) % SizeMod <= len

\* CHECK_LE(startFrom, str.size())
FromOk(startFrom, len) == startFrom <= len

\* The call made, with its arguments (len: the length of the string passed).
Called(op, x, y, len) == last' = [op |-> op, x |-> x, y |-> y, len |-> len]

NoResult == sub' = Range(NullIter, NullIter) /\ rhs' = Range(NullIter, NullIter)

\* The program stops: nothing of the object changes any more.
Stop ==
  /\ fatal' = TRUE
  /\ NoResult
  /\ UNCHANGED <<b_, e_, ndebug, orig, shrunk>>

\* The view is set to [b, e), by anything but advance and subtract.
SetTo(b, e) ==
  /\ b_' = b /\ e_' = e
  /\ orig' = Range(b, e) /\ shrunk' = 0
  /\ UNCHANGED <<ndebug, fatal>>

\* The view is shrunk to [b, e) by advance or subtract of n: the amounts of
\* a run of such calls on a well-formed view are summed.
ShrinkTo(b, e, n) ==
  /\ b_' = b /\ e_' = e
  /\ IF orig.b <= orig.e
     THEN orig' = orig /\ shrunk' = shrunk + n
     ELSE orig' = Range(b, e) /\ shrunk' = 0
  /\ NoResult
  /\ UNCHANGED <<ndebug, fatal>>

Constructed == last.op # "new"

\* Storage for a Range, not yet constructed; the build is either kind.
Init ==
  /\ FindIdle /\ CmpIdle
  /\ b_ = NullIter /\ e_ = NullIter
  /\ rhs = Range(NullIter, NullIter)
  /\ sub = Range(NullIter, NullIter)
  /\ fatal = FALSE
  /\ ndebug \in BOOLEAN
  /\ last = [op |-> "new", x |-> 0, y |-> 0, len |-> 0]
  /\ orig = Range(NullIter, NullIter) /\ shrunk = 0

\* Range()
RangeDefault ==
  /\ ~Constructed
  /\ Called("Range", 0, 0, 0)
  /\ SetTo(NullIter, NullIter) /\ NoResult

\* Range(Iter start, Iter end)
RangeIterIter(start, end) ==
  /\ ~Constructed
  /\ Called("RangeIterIter", start, end, 0)
  /\ IF AssertStops(start <= end)
     THEN Stop
     ELSE SetTo(start, end) /\ NoResult

\* Range(Iter start, size_t size)
RangeIterSize(start, size) ==
  /\ ~Constructed
  /\ Called("RangeIterSize", start, size, 0)
  /\ SetTo(start, PtrAdd(start, size)) /\ NoResult

\* Range(const std::string& str), Range(const fbstring& str)
RangeString(len) ==
  /\ ~Constructed
  /\ Called("RangeString", 0, 0, len)
  /\ SetTo(StrData, PtrAdd(StrData, len)) /\ NoResult

\* Range(const std::string& str, size_type startFrom), and the same of fbstring
RangeStringFrom(len, startFrom) ==
  /\ ~Constructed
  /\ Called("RangeStringFrom", startFrom, 0, len)
  /\ IF ~FromOk(startFrom, len)
     THEN Stop
     ELSE SetTo(PtrAdd(StrData, startFrom), PtrAdd(StrData, len)) /\ NoResult

\* Range(const std::string& str, size_type startFrom, size_type size), and
\* the same of fbstring
RangeStringFromSize(len, startFrom, size) ==
  /\ ~Constructed
  /\ Called("RangeStringFromSize", startFrom, size, len)
  /\ IF ~FromSizeOk(startFrom, size, len)
     THEN Stop
     ELSE SetTo(PtrAdd(StrData, startFrom),
                PtrAdd(PtrAdd(StrData, startFrom), size)) /\ NoResult

clear ==
  /\ Constructed /\ ~fatal
  /\ Called("clear", 0, 0, 0)
  /\ SetTo(NullIter, NullIter) /\ NoResult

assign(start, end) ==
  /\ Constructed /\ ~fatal
  /\ Called("assign", start, end, 0)
  /\ SetTo(start, end) /\ NoResult

\* reset(Iter start, size_type size); reset(const std::string& str) is
\* reset(str.data(), str.size())
reset(start, size) ==
  /\ Constructed /\ ~fatal
  /\ Called("reset", start, size, 0)
  /\ SetTo(start, PtrAdd(start, size)) /\ NoResult

advance(n) ==
  /\ Constructed /\ ~fatal
  /\ Called("advance", n, 0, 0)
  /\ IF AssertStops(b_ <= e_) \/ ~ShrinkOk(Range(b_, e_), n)
     THEN Stop
     ELSE ShrinkTo(PtrAdd(b_, n), e_, n)

subtract(n) ==
  /\ Constructed /\ ~fatal
  /\ Called("subtract", n, 0, 0)
  /\ IF AssertStops(b_ <= e_) \/ ~ShrinkOk(Range(b_, e_), n)
     THEN Stop
     ELSE ShrinkTo(b_, PtrSub(e_, n), n)

pop_front ==
  /\ Constructed /\ ~fatal
  /\ Called("pop_front", 0, 0, 0)
  /\ IF AssertStops(b_ < e_)
     THEN Stop
     ELSE SetTo(PtrAdd(b_, 1), e_) /\ NoResult

pop_back ==
  /\ Constructed /\ ~fatal
  /\ Called("pop_back", 0, 0, 0)
  /\ IF AssertStops(b_ < e_)
     THEN Stop
     ELSE SetTo(b_, PtrSub(e_, 1)) /\ NoResult

\* subpiece(first, length) const: the view it returns is kept in sub.
subpiece(first, length) ==
  /\ Constructed /\ ~fatal
  /\ Called("subpiece", first, length, 0)
  /\ IF AssertStops(b_ <= e_) \/ ~SubpieceOk(Range(b_, e_), first)
     THEN Stop
     ELSE /\ sub' = Subpiece(Range(b_, e_), first, length)
          /\ rhs' = Range(NullIter, NullIter)
          /\ UNCHANGED <<b_, e_, ndebug, fatal, orig, shrunk>>

\* swap(Range& rhs): the view takes the positions of the caller's other view
\* r, which is left with this view's.
swap(r) ==
  /\ Constructed /\ ~fatal
  /\ Called("swap", 0, 0, 0)
  /\ SetTo(r.b, r.e)
  /\ rhs' = Range(b_, e_)
  /\ sub' = Range(NullIter, NullIter)

Views == {Range(b, e) : b \in Addr, e \in Addr}

Next ==
  \/ (\E start \in Addr, end \in Addr : assign(start, end)) /\ UNCHANGED <<findVars, cmpVars>>
  \/ RangeDefault /\ UNCHANGED <<findVars, cmpVars>>
  \/ (\E start \in Addr, end \in Addr : RangeIterIter(start, end)) /\ UNCHANGED <<findVars, cmpVars>>
  \/ (\E start \in Addr, size \in SizeT : RangeIterSize(start, size)) /\ UNCHANGED <<findVars, cmpVars>>
  \/ (\E len \in 0 .. MaxStrLen : RangeString(len)) /\ UNCHANGED <<findVars, cmpVars>>
  \/ (\E len \in 0 .. MaxStrLen, startFrom \in SizeT : RangeStringFrom(len, startFrom)) /\ UNCHANGED <<findVars, cmpVars>>
  \/ (\E len \in 0 .. MaxStrLen, startFrom \in SizeT, size \in SizeT :
        RangeStringFromSize(len, startFrom, size)) /\ UNCHANGED <<findVars, cmpVars>>
  \/ clear /\ UNCHANGED <<findVars, cmpVars>>
  \/ (\E start \in Addr, size \in SizeT : reset(start, size)) /\ UNCHANGED <<findVars, cmpVars>>
  \/ (\E n \in SizeT : advance(n)) /\ UNCHANGED <<findVars, cmpVars>>
  \/ (\E n \in SizeT : subtract(n)) /\ UNCHANGED <<findVars, cmpVars>>
  \/ pop_front /\ UNCHANGED <<findVars, cmpVars>>
  \/ pop_back /\ UNCHANGED <<findVars, cmpVars>>
  \/ (\E first \in SizeT, length \in SizeT : subpiece(first, length)) /\ UNCHANGED <<findVars, cmpVars>>
  \/ (\E r \in Views : swap(r)) /\ UNCHANGED <<findVars, cmpVars>>

Spec == Init /\ [][Next]_vars

\* ------------------------------------------------- find and qfind
\* The haystack buffer lies at StrData; the view searched is the whole of it.
HayView == Range(StrData, StrData + Len(hay))

\* needle.size(), and qfind's nsize_1
nsize == Len(needle)
nsize_1 == (nsize - 1) % SizeMod

\* What reading the char at address a yields: the buffer's element, or, outside
\* the buffer (undefined behaviour), any char.
HayAt(a) ==
  IF a >= StrData /\ a < StrData + Len(hay) THEN {hay[a - StrData + 1]}
  ELSE Chars

\* The read i[k] of qfind lies within the haystack view it was given.
InHaystack(a) == a >= hs.b /\ a < hs.e

\* operator[] const: CHECK_GT(size(), i), then b_[i].
IndexOk(idx) == nsize > idx

NeedleAt(idx) == needle[idx + 1]

\* auto iEnd = haystack.end() - nsize_1;
IEndLong(h) == h.e

IEnd(h) == h.e - nsize_1

\* skip = 1; the first candidate of the lazily computed skip.
FirstSkip == 1

\* i += skip;
SkipAheadStuck(it, sk) == it

SkipAhead(it, sk) == it + sk

\* skip <= nsize_1 && !eq(needle[nsize_1 - skip], lastNeedle)
SkipStopsShort(sk) ==
  /\ sk < nsize_1
  /\ ~Eq(comp, NeedleAt((nsize_1 - sk) % SizeMod), NeedleAt(nsize_1))

SkipIgnoresRepeats(sk) == sk <= nsize_1

SkipGoesOn(sk) ==
  /\ sk <= nsize_1
  /\ ~Eq(comp, NeedleAt((nsize_1 - sk) % SizeMod), NeedleAt(nsize_1))

\* return i - haystack.begin();
MatchOffset(it, h) == (it - h.b) % SizeMod

\* return ret == npos ? ret : ret + pos;
FindResultRelative(r, p) == r

FindResult(r, p) == IF r = npos THEN r ELSE (r + p) % SizeMod

\* The chars the buffers of a call are drawn from: two letters under exact
\* equality, and a letter in both cases beside them under the
\* case-insensitive comparator.
CharsFor(c) == IF c = "asciiCaseSensitive" THEN {97, 98} ELSE Chars

\* The inputs of a call: a haystack, a needle (for find(value_type c[, pos])
\* a needle of one element), a comparator and a start offset.  Range::find
\* searches with the exact-equality comparator; qfind takes either.
InitFind ==
  /\ ViewIdle /\ CmpIdle
  /\ api \in {"qfind", "find"}
  /\ comp \in {"asciiCaseSensitive", "asciiCaseInsensitive"}
  /\ comp = "asciiCaseInsensitive" => api = "qfind"
  /\ hay \in SeqsUpTo(CharsFor(comp), MaxHay)
  /\ needle \in SeqsUpTo(CharsFor(comp), MaxNeedle)
  /\ pos \in 0 .. (Len(hay) + 1)
  /\ api = "qfind" => pos = 0
  /\ pc = "call"
  /\ hs = Range(NullIter, NullIter)
  /\ i = 0 /\ j = 0 /\ skip = 0 /\ qret = 0 /\ ret = 0
  /\ oob = FALSE /\ reads = 0 /\ mism = 0

\* find(Range str, size_t pos): if (pos > size()) return npos; then
\* qfind(subpiece(pos), str).  qfind(haystack, needle, eq) called directly
\* searches the whole view.
FindCall ==
  /\ pc = "call"
  /\ IF api = "find" /\ pos > Size(HayView)
     THEN /\ ret' = npos
          /\ pc' = "done"
          /\ hs' = hs
     ELSE /\ hs' = IF api = "find" THEN Subpiece(HayView, pos, npos)
                   ELSE HayView
          /\ pc' = "qfind"
          /\ ret' = ret
  /\ UNCHANGED <<hay, needle, comp, api, pos, i, j, skip, qret, oob, reads, mism>>
  /\ UNCHANGED <<viewVars, cmpVars>>

\* qfind, lines 471-485: the two early returns, then lastNeedle, skip, i, iEnd.
QfindEntry ==
  /\ pc = "qfind"
  /\ IF Size(hs) < nsize
     THEN /\ qret' = npos /\ pc' = "return"
          /\ UNCHANGED <<i, skip, reads>>
     ELSE IF nsize = 0
     THEN /\ qret' = 0 /\ pc' = "return"
          /\ UNCHANGED <<i, skip, reads>>
     ELSE IF ~IndexOk(nsize_1)
     THEN /\ pc' = "fatal"
          /\ UNCHANGED <<i, skip, reads, qret>>
     ELSE /\ reads' = reads + 1
          /\ skip' = 0
          /\ i' = hs.b
          /\ pc' = "while"
          /\ qret' = qret
  /\ UNCHANGED <<hay, needle, comp, api, pos, hs, j, ret, oob, mism>>
  /\ UNCHANGED <<viewVars, cmpVars>>

\* while (i < iEnd) ... return std::string::npos;
While ==
  /\ pc = "while"
  /\ IF i < IEnd(hs)
     THEN pc' = "probe" /\ qret' = qret
     ELSE pc' = "return" /\ qret' = npos
  /\ UNCHANGED <<hay, needle, comp, api, pos, hs, i, j, skip, ret, oob, reads, mism>>
  /\ UNCHANGED <<viewVars, cmpVars>>

\* while (!eq(i[nsize_1], lastNeedle)) { if (++i == iEnd) return npos; }
Probe ==
  /\ pc = "probe"
  /\ \E c \in HayAt(i + nsize_1) :
       IF ~Eq(comp, c, NeedleAt(nsize_1))
       THEN /\ i' = i + 1
            /\ IF i + 1 = IEnd(hs)
               THEN pc' = "return" /\ qret' = npos
               ELSE pc' = "probe" /\ qret' = qret
            /\ j' = j
       ELSE /\ pc' = "verify"
            /\ j' = 0
            /\ UNCHANGED <<i, qret>>
  /\ oob' = (oob \/ ~InHaystack(i + nsize_1))
  /\ reads' = reads + 1
  /\ UNCHANGED <<hay, needle, comp, api, pos, hs, skip, ret, mism>>
  /\ UNCHANGED <<viewVars, cmpVars>>

\* One turn of for (size_t j = 0; ; ): assert(j < nsize); the comparison of
\* i[j] with needle[j]; on a mismatch the skip (computed if still 0) is added
\* to i; otherwise ++j, and the match is returned once j == nsize.
\* With j >= nsize the assert stops a debug build and the CHECK of needle[j]
\* stops any build.
Verify ==
  /\ pc = "verify"
  /\ IF ~(j < nsize) \/ ~IndexOk(j)
     THEN /\ pc' = "fatal"
          /\ UNCHANGED <<i, j, skip, qret, oob, reads, mism>>
     ELSE \E c \in HayAt(i + j) :
          /\ oob' = (oob \/ ~InHaystack(i + j))
          /\ reads' = reads + 2
          /\ IF ~Eq(comp, c, NeedleAt(j))
             THEN /\ mism' = mism + 1
                  /\ IF skip = 0
                     THEN /\ skip' = FirstSkip
                          /\ pc' = "skip"
                          /\ i' = i
                     ELSE /\ i' = SkipAhead(i, skip)
                          /\ pc' = "while"
                          /\ skip' = skip
                  /\ UNCHANGED <<j, qret>>
             ELSE /\ j' = j + 1
                  /\ IF j + 1 = nsize
                     THEN pc' = "return" /\ qret' = MatchOffset(i, hs)
                     ELSE pc' = "verify" /\ qret' = qret
                  /\ UNCHANGED <<i, skip, mism>>
  /\ UNCHANGED <<hay, needle, comp, api, pos, hs, ret>>
  /\ UNCHANGED <<viewVars, cmpVars>>

\* while (skip <= nsize_1 && !eq(needle[nsize_1 - skip], lastNeedle)) ++skip;
\* then i += skip; break;
SkipLoop ==
  /\ pc = "skip"
  /\ IF skip <= nsize_1 /\ ~IndexOk((nsize_1 - skip) % SizeMod)
     THEN /\ pc' = "fatal"
          /\ UNCHANGED <<i, skip, reads>>
     ELSE IF SkipGoesOn(skip)
     THEN /\ skip' = skip + 1
          /\ reads' = reads + 1
          /\ pc' = "skip"
          /\ i' = i
     ELSE /\ i' = SkipAhead(i, skip)
          /\ reads' = IF skip <= nsize_1 THEN reads + 1 ELSE reads
          /\ pc' = "while"
          /\ skip' = skip
  /\ UNCHANGED <<hay, needle, comp, api, pos, hs, j, qret, ret, oob, mism>>
  /\ UNCHANGED <<viewVars, cmpVars>>

\* qfind has returned: find adds pos to a match offset, qfind's caller gets
\* the offset as it is.
FindReturn ==
  /\ pc = "return"
  /\ ret' = IF api = "find" THEN FindResult(qret, pos) ELSE qret
  /\ pc' = "done"
  /\ UNCHANGED <<hay, needle, comp, api, pos, hs, i, j, skip, qret, oob, reads, mism>>
  /\ UNCHANGED <<viewVars, cmpVars>>

NextFind ==
  \/ FindCall
  \/ QfindEntry
  \/ While
  \/ Probe
  \/ Verify
  \/ SkipLoop
  \/ FindReturn

SpecFind == InitFind /\ [][NextFind]_vars

\* The call is one thread of control: it takes its next step whenever it has one.
SpecFindFair == SpecFind /\ WF_vars(NextFind)


\* ------------------------------------------------------------ compare
\* traits_type::compare(s1, s2, n) of std::char_traits<char>: the sign of the
\* first difference among the first n chars.
TraitsCompare(s1, s2, n) ==
  LET diff == {k \in 1 .. n : s1[k] # s2[k]}
  IN  IF diff = {} THEN 0
      ELSE LET k == CHOOSE m \in diff : \A d \in diff : m <= d
           IN  IF s1[k] < s2[k] THEN -1 ELSE 1

\* The conversion of a size_type value to int: its low bits, two's complement.
ToInt(x) ==
  LET m == x % IntMod
  IN  IF 2 * m >= IntMod THEN m - IntMod ELSE m

\* int compare(const Range& o) const, on views of the given elements.
Compare(t, o) ==
  LET tsize == Len(t)
      osize == Len(o)
      msize == Min(tsize, osize)
      r == TraitsCompare(t, o, msize)
  IN  IF r = 0 THEN ToInt((tsize - osize) % SizeMod) ELSE r

\* operator==(lhs, rhs)
OperatorEq(l, r) == Len(l) = Len(r) /\ Compare(l, r) = 0

\* operator<(lhs, rhs)
OperatorLess(l, r) == Compare(l, r) < 0

CmpView(x) == IF x = "A" THEN cmpA ELSE IF x = "B" THEN cmpB ELSE cmpC

InitCompare ==
  /\ ViewIdle /\ FindIdle
  /\ cmpA \in SeqsUpTo({97, 98}, MaxCmpLen)
  /\ cmpB \in SeqsUpTo({97, 98}, MaxCmpLen)
  /\ cmpC \in SeqsUpTo({97, 98}, MaxCmpLen)
  /\ cmpDone = FALSE
  /\ cmpRes = NotCompared

\* The three views are compared with each other, each way round.
CompareAll ==
  /\ ~cmpDone
  /\ cmpDone' = TRUE
  /\ cmpRes' = [p \in CmpPairs |->
                  [c |-> Compare(CmpView(p[1]), CmpView(p[2])),
                   lt |-> OperatorLess(CmpView(p[1]), CmpView(p[2])),
                   eq |-> OperatorEq(CmpView(p[1]), CmpView(p[2]))]]
  /\ UNCHANGED <<cmpA, cmpB, cmpC>>
  /\ UNCHANGED <<viewVars, findVars>>

NextCompare == CompareAll

SpecCompare == InitCompare /\ [][NextCompare]_vars

\* ------------------------------------------- properties of compare
\* s sorts before t lexicographically: at the first place they differ s has
\* the smaller element, or s is a proper prefix of t.
LexLess(s, t) ==
  \E k \in 1 .. Len(t) :
    /\ \A m \in 1 .. (k - 1) : m <= Len(s) /\ s[m] = t[m]
    /\ (k > Len(s) \/ (k <= Len(s) /\ s[k] < t[k]))

\* C3: compare is negative, zero or positive exactly when the first view is
\* lexicographically less than, equal to or greater than the second; it is 0
\* iff operator== holds iff the views have the same elements; and operator<
\* is a strict total order.
C3_CompareIsLexicographic ==
  cmpDone =>
    /\ \A p \in CmpPairs :
         LET s == CmpView(p[1])
             t == CmpView(p[2])
         IN  /\ (cmpRes[p].c < 0 <=> LexLess(s, t))
             /\ (cmpRes[p].c > 0 <=> LexLess(t, s))
             /\ (cmpRes[p].c = 0 <=> s = t)
             /\ (cmpRes[p].eq <=> cmpRes[p].c = 0)
             /\ (cmpRes[p].eq <=> s = t)
    /\ \A x \in {"A", "B", "C"} : ~cmpRes[<<x, x>>].lt
    /\ \A x, y \in {"A", "B", "C"} :
         /\ ~(cmpRes[<<x, y>>].lt /\ cmpRes[<<y, x>>].lt)
         /\ (CmpView(x) # CmpView(y)
               => cmpRes[<<x, y>>].lt \/ cmpRes[<<y, x>>].lt)
    /\ \A x, y, z \in {"A", "B", "C"} :
         cmpRes[<<x, y>>].lt /\ cmpRes[<<y, z>>].lt => cmpRes[<<x, z>>].lt

\* ------------------------------------- properties of the Range object
\* C4: once constructed, the view has b_ <= e_ unless execution has stopped.
C4_BeginLeEnd == Constructed => (fatal \/ b_ <= e_)

\* C5: Range(str, startFrom, size) stops when startFrom + size exceeds the
\* string's length and Range(str, startFrom) when startFrom does; a
\* construction that returns leaves the view
\* [data + startFrom, data + startFrom + size), respectively
\* [data + startFrom, data + len), inside the string and with b_ <= e_.
C5_StringCtorChecked ==
  /\ last.op = "RangeStringFromSize" =>
       /\ (last.x + last.y > last.len => fatal)
       /\ (~fatal => /\ b_ = StrData + last.x
                     /\ e_ = StrData + last.x + last.y
                     /\ StrData <= b_ /\ b_ <= e_ /\ e_ <= StrData + last.len)
  /\ last.op = "RangeStringFrom" =>
       /\ (last.x > last.len => fatal)
       /\ (~fatal => /\ b_ = StrData + last.x
                     /\ e_ = StrData + last.len
                     /\ StrData <= b_ /\ b_ <= e_)

\* C6: on a view with b_ <= e_, subpiece(first, length) stops when
\* first > size(); otherwise it returns the view that begins at b_ + first,
\* has min(length, size() - first) elements, each the element of the view
\* first places further on, and ends no later than e_; the view itself is
\* left as it was.
C6_Subpiece ==
  [][(last'.op = "subpiece" /\ b_ <= e_) =>
       LET V == Range(b_, e_)
           first == last'.x
           length == last'.y
       IN  /\ b_' = b_ /\ e_' = e_
           /\ IF first > Size(V)
              THEN fatal'
              ELSE /\ ~fatal'
                   /\ sub'.b = b_ + first
                   /\ sub'.e - sub'.b = Min(length, Size(V) - first)
                   /\ sub'.e <= e_
                   /\ \A k \in 0 .. (sub'.e - sub'.b - 1) :
                        Elem(sub', k) = Elem(V, first + k)]_vars

\* A subpiece from the middle of a view, of fewer elements than remain, and
\* one cut down to what remains.
C6_Witness ==
  /\ last.op = "subpiece" /\ ~fatal /\ b_ < e_
  /\ last.x > 0 /\ last.y > 0
  /\ last.y > Size(Range(b_, e_)) - last.x
  /\ Size(sub) > 0 /\ sub.e = e_

\* C7: on a view with b_ <= e_, advance(n) and subtract(n) stop, the view
\* unchanged, when n > size(); otherwise advance adds n to b_ and leaves e_,
\* subtract takes n from e_ and leaves b_, and size() is n less.  After a run
\* of such calls the size is the size of the view the run started from less
\* the sum of the amounts, and the view lies within that view.
C7_AdvanceSubtract ==
  /\ [][(last'.op \in {"advance", "subtract"} /\ b_ <= e_) =>
          LET V == Range(b_, e_)
              n == last'.x
          IN  IF n > Size(V)
              THEN fatal' /\ b_' = b_ /\ e_' = e_
              ELSE /\ ~fatal'
                   /\ (last'.op = "advance" => b_' = b_ + n /\ e_' = e_)
                   /\ (last'.op = "subtract" => e_' = e_ - n /\ b_' = b_)
                   /\ Size(Range(b_', e_')) = Size(V) - n]_vars
  /\ []((Constructed /\ orig.b <= orig.e) =>
          /\ Size(Range(b_, e_)) = Size(orig) - shrunk
          /\ orig.b <= b_ /\ b_ <= e_ /\ e_ <= orig.e)

\* A subtract that returned, in a run that also advanced.
C7_Witness ==
  /\ last.op = "subtract" /\ ~fatal
  /\ last.x > 0 /\ shrunk > last.x
  /\ orig.b < b_ /\ e_ < orig.e /\ b_ < e_


\* ------------------------------------------------ properties of find
\* The needle occurs in the buffer at offset k, element by element under the
\* comparator of the call.
MatchAt(k) ==
  /\ k + Len(needle) <= Len(hay)
  /\ \A t \in 1 .. Len(needle) : Eq(comp, hay[k + t], needle[t])

\* The least offset >= p at which the needle occurs, or npos.
LeastMatch(p) ==
  LET occ == {k \in p .. Len(hay) : MatchAt(k)}
  IN  IF occ = {} THEN npos
      ELSE CHOOSE k \in occ : \A m \in occ : k <= m

\* The distance from the needle's end to the nearest earlier element equal to
\* its last one, or the needle's length.
SkipValue ==
  LET rec == {s \in 1 .. (Len(needle) - 1) :
                Eq(comp, needle[Len(needle) - s], needle[Len(needle)])}
  IN  IF rec = {} THEN Len(needle)
      ELSE CHOOSE s \in rec : \A t \in rec : s <= t

\* C1: qfind with the exact-equality comparator returns the least offset at
\* which the needle occurs in the haystack, npos exactly when it occurs
\* nowhere, and 0 for an empty needle.
C1_QfindLeftmost ==
  (pc = "done" /\ api = "qfind" /\ comp = "asciiCaseSensitive")
    => /\ ret = LeastMatch(0)
       /\ (ret = npos <=> \A k \in 0 .. Len(hay) : ~MatchAt(k))
       /\ (Len(needle) = 0 => ret = 0)

\* A match found past offset 0 after a verification mismatch, in a haystack
\* that repeats the needle's last element.
C1_Witness ==
  /\ pc = "done" /\ api = "qfind" /\ comp = "asciiCaseSensitive"
  /\ Len(needle) >= 2 /\ mism > 0
  /\ ret # npos /\ ret > 0

\* C2: find(needle, pos) returns npos without searching when pos > size(),
\* and otherwise the least offset k >= pos, counted from the view's begin, at
\* which the needle occurs, or npos when there is none.
C2_FindFromPos ==
  (pc = "done" /\ api = "find")
    => /\ (pos > Len(hay) => ret = npos /\ reads = 0)
       /\ (pos <= Len(hay) => ret = LeastMatch(pos))
       /\ (ret # npos => ret >= pos /\ MatchAt(ret))

\* A search from a non-zero pos that finds a later occurrence than the first.
C2_Witness ==
  /\ pc = "done" /\ api = "find"
  /\ pos > 0 /\ Len(needle) > 0
  /\ MatchAt(0) /\ ret # npos /\ ret > pos

\* C8: qfind never stops on a CHECK or an assert, reads the haystack only
\* inside the view it was given, reads nothing when the needle is empty or
\* longer than the haystack, and returns npos or an offset at which the
\* needle fits.
C8_QfindInBounds ==
  /\ pc # "fatal"
  /\ ~oob
  /\ (pc \in {"while", "probe", "verify", "skip"} => i >= hs.b /\ i <= hs.e)
  /\ (pc = "return" /\ (Len(needle) = 0 \/ Len(needle) > Size(hs))
        => reads = 0)
  /\ (pc = "return" => qret = npos \/ qret + Len(needle) <= Size(hs))

\* The needle fills the haystack: the reads reach the view's last element.
C8_Witness ==
  /\ pc = "return" /\ Len(needle) >= 2 /\ Len(needle) = Size(hs)
  /\ qret = 0 /\ reads > 0

ProbeMiss == pc = "probe" /\ pc' \in {"probe", "return"}
MismatchAdvance == pc \in {"verify", "skip"} /\ pc' = "while"

\* C9: every probe that misses moves i forward by one, every advance after a
\* verification mismatch moves it forward by at least 1 and at most the
\* needle's length, and the call returns.
C9_QfindTerminates ==
  /\ [][ProbeMiss => i' = i + 1]_vars
  /\ [][MismatchAdvance => i' - i >= 1 /\ i' - i <= Len(needle)]_vars
  /\ [][(pc \in {"while", "probe", "verify", "skip"}) => (i' >= i)]_vars
  /\ <>(pc = "done")

\* A call that has returned after at least one mismatch advance.
C9_Witness ==
  /\ pc = "done" /\ mism >= 2 /\ reads > 0

\* C10: skip is 0 until the first verification mismatch; the advance after
\* that mismatch and every later one adds SkipValue to i, skip holding that
\* value from then on; the skip loop runs only at the first mismatch; and no
\* offset an advance passes over is the start of a match.
C10_SkipOnce ==
  /\ [](mism = 0 => skip = 0)
  /\ [][MismatchAdvance => skip' = SkipValue /\ i' = i + SkipValue]_vars
  /\ [][pc' = "skip" /\ pc # "skip" => mism = 0 /\ skip = 0]_vars
  /\ [][mism > 0 /\ pc # "skip" => skip = SkipValue /\ skip' = skip]_vars
  /\ [][MismatchAdvance
          => \A a \in i .. (i' - 1) : ~MatchAt(a - StrData)]_vars

\* A second mismatch advance, by a skip shorter than the needle.
C10_Witness ==
  /\ pc = "while" /\ mism >= 2
  /\ skip = SkipValue /\ skip > 1 /\ skip < Len(needle)

=============================================================================
